---- MODULE Spec2Model ----
(***************************************************************************)
(* Coderr backend: the relational tables of users_app, offers_app,         *)
(* orders_app and reviews_app and the request handlers routed by           *)
(* core/urls.py, as a state machine.  Every handler is one action; the     *)
(* handlers that issue several autocommitted statements with other         *)
(* requests in between (registration, offer creation, review creation)     *)
(* are one action per statement.                                           *)
(***************************************************************************)
EXTENDS Integers, Sequences, FiniteSets, TLC

(***************************************************************************)
(* Bounds of the model.                                                    *)
(***************************************************************************)
MaxUsers == 4
ProfileUsers == 2
MaxRegistrations == 2
MaxOffers == 1
MarketOffers == 2
MaxDetails == 4
MaxOrders == 1
MaxReviews == 2
StatsReviews == 3

VARIABLES
    auth_user,      \* django.contrib.auth User rows: id -> [username, password, email]
    UserProfile,    \* users_app_userprofile rows: pk -> [user, type]
    Token,          \* authtoken_token rows: key -> [user]
    Offer,          \* offers_app_offer rows: id -> [creator, title]
    OfferDetail,    \* offers_app_offerdetail rows: id -> [offer, offer_type, ...]
    Order,          \* orders_app_order rows: id -> [buyer, offer_detail, status]
    Review,         \* reviews_app_review rows: id -> [reviewer, business_user, rating]
    last_id,        \* per table, the last primary key handed out (AutoField)
    pending,        \* requests between two of their statements: worker -> frame
    response        \* the response of the request that finished last

vars == <<auth_user, UserProfile, Token, Offer, OfferDetail, Order, Review,
          last_id, pending, response>>

(***************************************************************************)
(* Values.                                                                 *)
(***************************************************************************)
UserIds == 1..MaxUsers
Workers == {"w1", "w2"}
Tables == {"auth_user", "UserProfile", "Token", "Offer", "OfferDetail", "Order", "Review"}

USER_TYPE_CHOICES == {"customer", "business"}
OFFER_TYPE_CHOICES == {"basic", "standard", "premium"}
STATUS_CHOICES == {"in_progress", "completed", "cancelled"}

HTTP_200_OK == 200
HTTP_201_CREATED == 201
HTTP_204_NO_CONTENT == 204
HTTP_400_BAD_REQUEST == 400
HTTP_403_FORBIDDEN == 403
HTTP_404_NOT_FOUND == 404
HTTP_500_INTERNAL_SERVER_ERROR == 500

Idle == [pc |-> "idle"]
NoData == <<>>
NoResponse == [op |-> "none", user |-> 0, pk |-> 0, status |-> 0, data |-> NoData]
\* A response, with the request it answers: operation, acting user, primary
\* key of the URL, and (where a property needs it) the request body.
RespTo(op, user, pk, status, data) ==
    [op |-> op, user |-> user, pk |-> pk, status |-> status, data |-> data]
Resp(op, user, pk, status) == RespTo(op, user, pk, status, NoData)

\* A request payload is a function from the supplied field names to values.
Payloads(fields, Values(_)) ==
    UNION { { d \in [S -> UNION { Values(f) : f \in S }] :
                \A f \in S : d[f] \in Values(f) } : S \in SUBSET fields }

\* obj with the fields of d overwritten (setattr for every key of d).
SetAttrs(obj, d) ==
    [f \in DOMAIN obj |-> IF f \in DOMAIN d THEN d[f] ELSE obj[f]]

\* d restricted to the keys in keep.
Only(d, keep) == [f \in (DOMAIN d) \cap keep |-> d[f]]

Insert(table, pk, row) == [k \in (DOMAIN table) \cup {pk} |-> IF k = pk THEN row ELSE table[k]]
Delete(table, pks) == [k \in (DOMAIN table) \ pks |-> table[k]]
EmptyTable == [k \in {} |-> 0]

\* Token.objects.filter(user=u): the keys of the account's tokens.
TokensOf(u) == {k \in DOMAIN Token : Token[k].user = u}

\* request.user of an authenticated request: an account that holds a token.
Authenticated == {u \in DOMAIN auth_user : TokensOf(u) # {}}

\* UserProfile.objects.get(user=u): the set of matching primary keys.
ProfilesOf(u) == {p \in DOMAIN UserProfile : UserProfile[p].user = u}

\* profile.type == role for the profile of the user
HasRole(user, role) == \E p \in ProfilesOf(user) : UserProfile[p].type = role

(***************************************************************************)
(* users_app: profile endpoints.                                           *)
(***************************************************************************)
ProfileFields == {"email", "type"}
ProfileValues(f) ==
    CASE f = "email" -> {"new@mail.de"}
      [] f = "type" -> {"customer", "business", "admin"}
ProfilePayloads == Payloads(ProfileFields, ProfileValues)

\* ProfileDetailSerializer.is_valid: `type` is a ChoiceField; on PUT the
\* model field `type` (no default, not blank) is required.
ProfileDetailSerializer_is_valid(data, partial) ==
    /\ ("type" \in DOMAIN data => data["type"] \in USER_TYPE_CHOICES)
    /\ (~partial => "type" \in DOMAIN data)

\* ProfileDetailSerializer.update: write-through to the account, then setattr
\* of every remaining validated field on the profile.
ProfileDetailSerializer_update(pk, data) ==
    LET u == UserProfile[pk].user IN
    /\ auth_user' = [auth_user EXCEPT ![u] = SetAttrs(@, Only(data, {"email"}))]
    /\ UserProfile' = [UserProfile EXCEPT ![pk] = SetAttrs(@, Only(data, {"type"}))]

\* ProfileDetailView.get_object: lookup by user id.
ProfileDetailView_get_object(user_id) == ProfilesOf(user_id)

\* GET /api/profile/{pk}/
ProfileDetailView_get(user, pk) ==
    /\ response' = Resp("profile_get", user, pk,
                        IF ProfileDetailView_get_object(pk) = {} THEN HTTP_404_NOT_FOUND
                        ELSE HTTP_200_OK)
    /\ UNCHANGED <<auth_user, UserProfile, Token, Offer, OfferDetail, Order, Review,
                   last_id, pending>>

\* UpdateModelMixin.update on the object of /api/profile/{pk}/
ProfileDetailView_update(op, user, pk, data, partial) ==
    IF ProfileDetailView_get_object(pk) = {}
    THEN /\ response' = Resp(op, user, pk, HTTP_404_NOT_FOUND)
         /\ UNCHANGED <<auth_user, UserProfile>>
    ELSE IF ~ProfileDetailSerializer_is_valid(data, partial)
    THEN /\ response' = Resp(op, user, pk, HTTP_400_BAD_REQUEST)
         /\ UNCHANGED <<auth_user, UserProfile>>
    ELSE /\ ProfileDetailSerializer_update(CHOOSE p \in ProfileDetailView_get_object(pk) : TRUE, data)
         /\ response' = Resp(op, user, pk, HTTP_200_OK)

ProfileDetailView_patch_denied_mutant(user, pk) == FALSE

\* The ownership test of ProfileDetailView.patch.
ProfileDetailView_patch_denied(user, pk) == user # pk

\* PATCH /api/profile/{pk}/
ProfileDetailView_patch(user, pk, data) ==
    /\ IF ProfileDetailView_patch_denied(user, pk)
       THEN /\ response' = Resp("profile_patch", user, pk, HTTP_403_FORBIDDEN)
            /\ UNCHANGED <<auth_user, UserProfile>>
       ELSE ProfileDetailView_update("profile_patch", user, pk, data, TRUE)
    /\ UNCHANGED <<Token, Offer, OfferDetail, Order, Review, last_id, pending>>

\* PUT /api/profile/{pk}/ (RetrieveUpdateAPIView.put, not overridden)
ProfileDetailView_put(user, pk, data) ==
    /\ ProfileDetailView_update("profile_put", user, pk, data, FALSE)
    /\ UNCHANGED <<Token, Offer, OfferDetail, Order, Review, last_id, pending>>

\* POST /api/profiles/ : `user` is read-only, so the INSERT has no user_id
\* (NOT NULL violation), or the nested `user.*` sources trip the
\* nested-write assertion of ModelSerializer.create; nothing is written.
UserProfileViewSet_create(user, data) ==
    /\ response' = Resp("profiles_create", user, 0,
                        IF ProfileDetailSerializer_is_valid(data, FALSE)
                        THEN HTTP_500_INTERNAL_SERVER_ERROR ELSE HTTP_400_BAD_REQUEST)
    /\ UNCHANGED <<auth_user, UserProfile, Token, Offer, OfferDetail, Order, Review,
                   last_id, pending>>

\* PUT and PATCH /api/profiles/{pk}/ (pk is the profile's primary key)
UserProfileViewSet_update(user, pk, data, partial) ==
    LET op == IF partial THEN "profiles_partial_update" ELSE "profiles_update" IN
    /\ IF pk \notin DOMAIN UserProfile
       THEN /\ response' = Resp(op, user, pk, HTTP_404_NOT_FOUND)
            /\ UNCHANGED <<auth_user, UserProfile>>
       ELSE IF ~ProfileDetailSerializer_is_valid(data, partial)
       THEN /\ response' = Resp(op, user, pk, HTTP_400_BAD_REQUEST)
            /\ UNCHANGED <<auth_user, UserProfile>>
       ELSE /\ ProfileDetailSerializer_update(pk, data)
            /\ response' = Resp(op, user, pk, HTTP_200_OK)
    /\ UNCHANGED <<Token, Offer, OfferDetail, Order, Review, last_id, pending>>

\* DELETE /api/profiles/{pk}/
UserProfileViewSet_destroy(user, pk) ==
    /\ IF pk \notin DOMAIN UserProfile
       THEN /\ response' = Resp("profiles_destroy", user, pk, HTTP_404_NOT_FOUND)
            /\ UNCHANGED UserProfile
       ELSE /\ UserProfile' = Delete(UserProfile, {pk})
            /\ response' = Resp("profiles_destroy", user, pk, HTTP_204_NO_CONTENT)
    /\ UNCHANGED <<auth_user, Token, Offer, OfferDetail, Order, Review, last_id, pending>>

(***************************************************************************)
(* A database in which n accounts have registered: registration gives      *)
(* every account a profile and a token.  Profile keys are handed out in    *)
(* the order the profile rows were inserted, which need not be the order   *)
(* of the account rows: here it is the reverse order.                      *)
(***************************************************************************)
RegisteredType(u) == IF u % 2 = 1 THEN "business" ELSE "customer"
RegisteredUsers(n) ==
    [u \in 1..n |-> [username |-> ToString(u), password |-> "pw", email |-> "old@mail.de"]]
RegisteredProfiles(n) ==
    [p \in 1..n |-> [user |-> n + 1 - p, type |-> RegisteredType(n + 1 - p)]]
Registered(n) ==
    /\ auth_user = RegisteredUsers(n)
    /\ UserProfile = RegisteredProfiles(n)
    /\ Token = [k \in 1..n |-> [user |-> k]]

InitProfile ==
    /\ Registered(ProfileUsers)
    /\ Offer = EmptyTable /\ OfferDetail = EmptyTable
    /\ Order = EmptyTable /\ Review = EmptyTable
    /\ last_id = [t \in Tables |-> IF t \in {"auth_user", "UserProfile", "Token"} THEN ProfileUsers ELSE 0]
    /\ pending = [w \in Workers |-> Idle]
    /\ response = NoResponse

GetProfile == \E user \in Authenticated, pk \in UserIds : ProfileDetailView_get(user, pk)
PatchProfile ==
    \E user \in Authenticated, pk \in UserIds, data \in ProfilePayloads :
        ProfileDetailView_patch(user, pk, data)
PutProfile ==
    \E user \in Authenticated, pk \in UserIds, data \in ProfilePayloads :
        ProfileDetailView_put(user, pk, data)
CreateProfiles ==
    \E user \in Authenticated, data \in ProfilePayloads : UserProfileViewSet_create(user, data)
UpdateProfiles ==
    \E user \in Authenticated, pk \in UserIds, data \in ProfilePayloads, partial \in BOOLEAN :
        UserProfileViewSet_update(user, pk, data, partial)
DestroyProfiles ==
    \E user \in Authenticated, pk \in UserIds : UserProfileViewSet_destroy(user, pk)

NextProfile ==
    \/ GetProfile
    \/ PatchProfile
    \/ PutProfile
    \/ CreateProfiles
    \/ UpdateProfiles
    \/ DestroyProfiles

SpecProfile == InitProfile /\ [][NextProfile]_vars

(***************************************************************************)
(* users_app: registration and login.  registration_view issues four       *)
(* statements, each committed on its own: the username lookup of           *)
(* validate_username, the INSERT of the account, the INSERT of the         *)
(* profile and the INSERT of the token.                                    *)
(***************************************************************************)
Usernames == {"kevin", "maria"}
Passwords == {"pw", "other"}
RegistrationPayloads ==
    [username : Usernames, password : {"pw"}, repeated_password : Passwords,
     email : {"old@mail.de"}, type : USER_TYPE_CHOICES \cup {"admin"}]

\* User.objects.filter(username=value): the matching account ids.
UsersNamed(name) == {u \in DOMAIN auth_user : auth_user[u].username = name}

\* RegistrationSerializer.validate_username
validate_username(value) == UsersNamed(value) = {}

\* RegistrationSerializer.validate
validate(attrs) == attrs.password = attrs.repeated_password

\* RegistrationSerializer.is_valid: field validation, validate_username, validate.
RegistrationSerializer_is_valid(data) ==
    /\ data.type \in USER_TYPE_CHOICES
    /\ validate_username(data.username)
    /\ validate(data)

\* What a finished registration or login is recorded with: the request body
\* and the body of the response.
Exchange(request, body) == [request |-> request, body |-> body]

\* registration_view up to serializer.is_valid(raise_exception=True)
registration_view(w, data) ==
    /\ pending[w] = Idle
    /\ last_id["auth_user"] + Cardinality({v \in Workers : pending[v].pc = "create_user"})
          < MaxRegistrations
    /\ IF RegistrationSerializer_is_valid(data)
       THEN /\ pending' = [pending EXCEPT ![w] = [pc |-> "create_user", data |-> data, user |-> 0]]
            /\ UNCHANGED response
       ELSE /\ response' = RespTo("registration", 0, 0, HTTP_400_BAD_REQUEST,
                                  Exchange(data, [error |-> "invalid"]))
            /\ UNCHANGED pending
    /\ UNCHANGED <<auth_user, UserProfile, Token, Offer, OfferDetail, Order, Review, last_id>>

\* RegistrationSerializer.create: User.objects.create_user(...); the unique
\* index on username rejects a name taken since the lookup.
RegistrationSerializer_create_user(w) ==
    /\ pending[w].pc = "create_user"
    /\ LET data == pending[w].data
           id == last_id["auth_user"] + 1 IN
       IF UsersNamed(data.username) # {}
       THEN /\ response' = RespTo("registration", 0, 0, HTTP_500_INTERNAL_SERVER_ERROR,
                                  Exchange(data, [error |-> "IntegrityError"]))
            /\ pending' = [pending EXCEPT ![w] = Idle]
            /\ UNCHANGED <<auth_user, last_id>>
       ELSE /\ auth_user' = Insert(auth_user, id,
                    [username |-> data.username, password |-> data.password, email |-> data.email])
            /\ last_id' = [last_id EXCEPT !["auth_user"] = id]
            /\ pending' = [pending EXCEPT ![w].pc = "create_profile", ![w].user = id]
            /\ UNCHANGED response
    /\ UNCHANGED <<UserProfile, Token, Offer, OfferDetail, Order, Review>>

\* RegistrationSerializer.create: UserProfile.objects.create(user=user, type=user_type)
RegistrationSerializer_create_profile(w) ==
    /\ pending[w].pc = "create_profile"
    /\ LET id == last_id["UserProfile"] + 1 IN
       /\ UserProfile' = Insert(UserProfile, id,
                [user |-> pending[w].user, type |-> pending[w].data.type])
       /\ last_id' = [last_id EXCEPT !["UserProfile"] = id]
    /\ pending' = [pending EXCEPT ![w].pc = "create_token"]
    /\ UNCHANGED <<auth_user, Token, Offer, OfferDetail, Order, Review, response>>

\* registration_view: Token.objects.create(user=user) and the 201 response;
\* the one-to-one index on Token.user rejects a second token for the account.
registration_create_token(w) ==
    /\ pending[w].pc = "create_token"
    /\ LET user == pending[w].user
           data == pending[w].data
           key == last_id["Token"] + 1 IN
       IF TokensOf(user) # {}
       THEN /\ response' = RespTo("registration", user, 0, HTTP_500_INTERNAL_SERVER_ERROR,
                                  Exchange(data, [error |-> "IntegrityError"]))
            /\ UNCHANGED <<Token, last_id>>
       ELSE /\ Token' = Insert(Token, key, [user |-> user])
            /\ last_id' = [last_id EXCEPT !["Token"] = key]
            /\ response' = RespTo("registration", user, 0, HTTP_201_CREATED,
                                  Exchange(data, [token |-> key, user_id |-> user]))
    /\ pending' = [pending EXCEPT ![w] = Idle]
    /\ UNCHANGED <<auth_user, UserProfile, Offer, OfferDetail, Order, Review>>

authenticate_mutant(username, password) == UsersNamed(username)

\* django.contrib.auth.authenticate: the account with these credentials.
authenticate(username, password) ==
    {u \in UsersNamed(username) : auth_user[u].password = password}

Token_objects_get_or_create_mutant(user) ==
    Insert(Token, last_id["Token"] + 1, [user |-> user])

\* Token.objects.get_or_create(user=user): the table afterwards.
Token_objects_get_or_create(user) ==
    IF TokensOf(user) # {} THEN Token
    ELSE Insert(Token, last_id["Token"] + 1, [user |-> user])

\* POST /api/login/
login_view(username, password) ==
    LET request == [username |-> username, password |-> password] IN
    /\ IF authenticate(username, password) = {}
       THEN /\ response' = RespTo("login", 0, 0, HTTP_400_BAD_REQUEST,
                                  Exchange(request, [error |-> "Invalid credentials"]))
            /\ UNCHANGED <<Token, last_id>>
       ELSE LET user == CHOOSE u \in authenticate(username, password) : TRUE
                table == Token_objects_get_or_create(user)
                created == table # Token
                token == IF created THEN last_id["Token"] + 1
                         ELSE CHOOSE k \in TokensOf(user) : TRUE IN
            /\ Token' = table
            /\ last_id' = IF created THEN [last_id EXCEPT !["Token"] = token] ELSE last_id
            /\ response' = RespTo("login", user, 0, HTTP_200_OK,
                                  Exchange(request, [token |-> token, user_id |-> user]))
    /\ UNCHANGED <<auth_user, UserProfile, Offer, OfferDetail, Order, Review, pending>>

InitRegistration ==
    /\ auth_user = EmptyTable /\ UserProfile = EmptyTable /\ Token = EmptyTable
    /\ Offer = EmptyTable /\ OfferDetail = EmptyTable
    /\ Order = EmptyTable /\ Review = EmptyTable
    /\ last_id = [t \in Tables |-> 0]
    /\ pending = [w \in Workers |-> Idle]
    /\ response = NoResponse

Register == \E w \in Workers, data \in RegistrationPayloads : registration_view(w, data)
CreateUser == \E w \in Workers : RegistrationSerializer_create_user(w)
CreateUserProfile == \E w \in Workers : RegistrationSerializer_create_profile(w)
CreateToken == \E w \in Workers : registration_create_token(w)
Login == \E username \in Usernames, password \in Passwords : login_view(username, password)

NextRegistration ==
    \/ Register
    \/ CreateUser
    \/ CreateUserProfile
    \/ CreateToken
    \/ Login

SpecRegistration == InitRegistration /\ [][NextRegistration]_vars

(***************************************************************************)
(* offers_app.  A tier payload is a function from the supplied fields of   *)
(* OfferDetailSerializer to values; an offer payload has a title and, if   *)
(* supplied, `details`, a sequence of tier payloads.                       *)
(***************************************************************************)
DetailFields == {"title", "revisions", "delivery_time_in_days", "price", "features"}
RequiredDetailFields == {"title", "revisions", "delivery_time_in_days", "price", "offer_type"}

\* OfferDetailSerializer.is_valid for one tier payload: offer_type is a
\* ChoiceField; on POST and PUT the model fields without default are required.
OfferDetailSerializer_is_valid(d, partial) ==
    /\ ("offer_type" \in DOMAIN d => d["offer_type"] \in OFFER_TYPE_CHOICES)
    /\ (~partial => RequiredDetailFields \subseteq DOMAIN d)

\* sorted(types) == ['basic', 'premium', 'standard']
IsBasicPremiumStandard(types) ==
    /\ Len(types) = 3
    /\ \A t \in OFFER_TYPE_CHOICES : \E i \in 1..3 : types[i] = t

validate_details_mutant(value, method) ==
    /\ (method = "POST" => Len(value) = 3)
    /\ \A i \in 1..Len(value) : "offer_type" \in DOMAIN value[i]

\* OfferWriteSerializer.validate_details
validate_details(value, method) ==
    /\ (method = "POST" =>
          /\ Len(value) = 3
          /\ IsBasicPremiumStandard([i \in 1..Len(value) |-> value[i]["offer_type"]]))
    /\ \A i \in 1..Len(value) : "offer_type" \in DOMAIN value[i]

\* OfferWriteSerializer.is_valid: `title` and `details` are required unless
\* the update is partial; every tier is validated, then validate_details.
OfferWriteSerializer_is_valid(data, method) ==
    LET partial == (method = "PATCH") IN
    /\ (~partial => {"title", "details"} \subseteq DOMAIN data)
    /\ ("details" \in DOMAIN data =>
          /\ \A i \in 1..Len(data["details"]) :
                OfferDetailSerializer_is_valid(data["details"][i], partial)
          /\ validate_details(data["details"], method))

\* offer.details
DetailsOf(offer) == {d \in DOMAIN OfferDetail : OfferDetail[d].offer = offer}

OfferViewSet_create_denied_mutant(user) == FALSE

\* OfferViewSet.create: profile.type != 'business'
OfferViewSet_create_denied(user) ==
    \E p \in ProfilesOf(user) : UserProfile[p].type # "business"

\* OfferViewSet.create up to the end of validation: the role check, then
\* CreateModelMixin.create's serializer.is_valid(raise_exception=True).
OfferViewSet_create(w, user, data) ==
    /\ pending[w] = Idle
    /\ last_id["Offer"] < MaxOffers
    /\ IF ProfilesOf(user) = {}
       THEN /\ response' = RespTo("offers_create", user, 0, HTTP_404_NOT_FOUND, data)
            /\ UNCHANGED pending
       ELSE IF OfferViewSet_create_denied(user)
       THEN /\ response' = RespTo("offers_create", user, 0, HTTP_403_FORBIDDEN, data)
            /\ UNCHANGED pending
       ELSE IF ~OfferWriteSerializer_is_valid(data, "POST")
       THEN /\ response' = RespTo("offers_create", user, 0, HTTP_400_BAD_REQUEST, data)
            /\ UNCHANGED pending
       ELSE /\ pending' = [pending EXCEPT ![w] =
                    [pc |-> "create_offer", user |-> user, data |-> data, offer |-> 0, i |-> 1]]
            /\ UNCHANGED response
    /\ UNCHANGED <<auth_user, UserProfile, Token, Offer, OfferDetail, Order, Review, last_id>>

\* OfferWriteSerializer.create: Offer.objects.create(creator=creator, ...)
OfferWriteSerializer_create_offer(w) ==
    /\ pending[w].pc = "create_offer"
    /\ LET id == last_id["Offer"] + 1 IN
       /\ Offer' = Insert(Offer, id, [creator |-> pending[w].user, title |-> pending[w].data["title"]])
       /\ last_id' = [last_id EXCEPT !["Offer"] = id]
       /\ pending' = [pending EXCEPT ![w].pc = "create_detail", ![w].offer = id]
    /\ UNCHANGED <<auth_user, UserProfile, Token, OfferDetail, Order, Review, response>>

\* The row OfferDetail.objects.create(offer=offer, **detail_data) inserts;
\* `features` has the model default list().
NewOfferDetail(offer, detail_data) ==
    SetAttrs([offer |-> offer, title |-> "", revisions |-> 0, delivery_time_in_days |-> 1,
              price |-> 0, features |-> <<>>, offer_type |-> ""], detail_data)

\* OfferWriteSerializer.create: one pass of the loop over details_data; after
\* the last tier OfferViewSet.create answers 201.  The foreign key
\* OfferDetail.offer makes the INSERT fail (IntegrityError, answered 500) when
\* the offer row has been deleted in the meantime.
OfferWriteSerializer_create_detail(w) ==
    /\ pending[w].pc = "create_detail"
    /\ LET f == pending[w]
           id == last_id["OfferDetail"] + 1 IN
       IF f.offer \notin DOMAIN Offer
       THEN /\ pending' = [pending EXCEPT ![w] = Idle]
            /\ response' = RespTo("offers_create", f.user, f.offer,
                                  HTTP_500_INTERNAL_SERVER_ERROR, f.data)
            /\ UNCHANGED <<OfferDetail, last_id>>
       ELSE /\ OfferDetail' = Insert(OfferDetail, id, NewOfferDetail(f.offer, f.data["details"][f.i]))
            /\ last_id' = [last_id EXCEPT !["OfferDetail"] = id]
            /\ IF f.i < Len(f.data["details"])
               THEN /\ pending' = [pending EXCEPT ![w].i = f.i + 1]
                    /\ UNCHANGED response
               ELSE /\ pending' = [pending EXCEPT ![w] = Idle]
                    /\ response' = RespTo("offers_create", f.user, f.offer, HTTP_201_CREATED, f.data)
    /\ UNCHANGED <<auth_user, UserProfile, Token, Offer, Order, Review>>

\* OfferDetail.objects.filter(offer=instance, offer_type=offer_type), the
\* lookup of get_or_create, in the table as the loop has left it so far.
OfferDetail_filter(table, offer, offer_type) ==
    {k \in DOMAIN table : table[k].offer = offer /\ table[k].offer_type = offer_type}

\* The row get_or_create inserts when the lookup finds nothing: `defaults`.
DefaultOfferDetail(offer, offer_type) ==
    [offer |-> offer, title |-> "", revisions |-> 0, delivery_time_in_days |-> 1,
     price |-> 0, features |-> <<>>, offer_type |-> offer_type]

UpsertedOfferDetail_mutant(detail_obj, d) ==
    SetAttrs(DefaultOfferDetail(detail_obj.offer, detail_obj.offer_type), Only(d, DetailFields))

\* The setattr loop over title, revisions, delivery_time_in_days, price and
\* features: the row detail_obj.save() writes.
UpsertedOfferDetail(detail_obj, d) == SetAttrs(detail_obj, Only(d, DetailFields))

\* OfferWriteSerializer.update, the loop over details_data from ds[i] on:
\* get_or_create, setattr, save.  The resulting table, the last key handed
\* out, and whether get_or_create raised MultipleObjectsReturned (which ends
\* the request with what was written so far).
RECURSIVE UpsertDetails(_, _, _, _, _)
UpsertDetails(table, last, offer, ds, i) ==
    IF i > Len(ds) THEN [table |-> table, last |-> last, raised |-> FALSE]
    ELSE LET d == ds[i]
             found == OfferDetail_filter(table, offer, d["offer_type"])
             created == found = {}
             k == IF created THEN last + 1 ELSE CHOOSE x \in found : TRUE
             detail_obj == IF created THEN DefaultOfferDetail(offer, d["offer_type"])
                           ELSE table[k]
         IN IF Cardinality(found) > 1
            THEN [table |-> table, last |-> last, raised |-> TRUE]
            ELSE UpsertDetails(Insert(table, k, UpsertedOfferDetail(detail_obj, d)),
                               IF created THEN last + 1 ELSE last, offer, ds, i + 1)

\* OfferWriteSerializer.update raises in get_or_create.
OfferWriteSerializer_update_raises(pk, data) ==
    /\ "details" \in DOMAIN data
    /\ UpsertDetails(OfferDetail, last_id["OfferDetail"], pk, data["details"], 1).raised

\* OfferWriteSerializer.update
OfferWriteSerializer_update(pk, data) ==
    /\ Offer' = [Offer EXCEPT ![pk] = SetAttrs(@, Only(data, {"title"}))]
    /\ IF "details" \in DOMAIN data
       THEN LET r == UpsertDetails(OfferDetail, last_id["OfferDetail"], pk, data["details"], 1) IN
            /\ OfferDetail' = r.table
            /\ last_id' = [last_id EXCEPT !["OfferDetail"] = r.last]
       ELSE UNCHANGED <<OfferDetail, last_id>>

OfferViewSet_is_creator_mutant(user, pk) == TRUE

\* instance.creator != request.user, negated
OfferViewSet_is_creator(user, pk) == Offer[pk].creator = user

\* OfferViewSet.update: PUT and PATCH /api/offers/{pk}/
OfferViewSet_update(user, pk, data, method) ==
    LET op == IF method = "PATCH" THEN "offers_partial_update" ELSE "offers_update" IN
    /\ IF pk \notin DOMAIN Offer
       THEN /\ response' = RespTo(op, user, pk, HTTP_404_NOT_FOUND, data)
            /\ UNCHANGED <<Offer, OfferDetail, last_id>>
       ELSE IF ~OfferViewSet_is_creator(user, pk)
       THEN /\ response' = RespTo(op, user, pk, HTTP_403_FORBIDDEN, data)
            /\ UNCHANGED <<Offer, OfferDetail, last_id>>
       ELSE IF ~OfferWriteSerializer_is_valid(data, method)
       THEN /\ response' = RespTo(op, user, pk, HTTP_400_BAD_REQUEST, data)
            /\ UNCHANGED <<Offer, OfferDetail, last_id>>
       ELSE /\ OfferWriteSerializer_update(pk, data)
            /\ response' = RespTo(op, user, pk,
                                  IF OfferWriteSerializer_update_raises(pk, data)
                                  THEN HTTP_500_INTERNAL_SERVER_ERROR ELSE HTTP_200_OK, data)
    /\ UNCHANGED <<auth_user, UserProfile, Token, Order, Review, pending>>

\* OfferViewSet.destroy: DELETE /api/offers/{pk}/; the tiers and their
\* orders go with the offer (on_delete=CASCADE).
OfferDetail_offer_CASCADE_mutant(pk) == {}

\* OfferDetail.offer, on_delete=models.CASCADE: the tiers deleted with the
\* offer pk.
OfferDetail_offer_CASCADE(pk) == DetailsOf(pk)

OfferViewSet_destroy(user, pk) ==
    /\ IF pk \notin DOMAIN Offer
       THEN /\ response' = Resp("offers_destroy", user, pk, HTTP_404_NOT_FOUND)
            /\ UNCHANGED <<Offer, OfferDetail, Order>>
       ELSE IF ~OfferViewSet_is_creator(user, pk)
       THEN /\ response' = Resp("offers_destroy", user, pk, HTTP_403_FORBIDDEN)
            /\ UNCHANGED <<Offer, OfferDetail, Order>>
       ELSE /\ Offer' = Delete(Offer, {pk})
            /\ OfferDetail' = Delete(OfferDetail, OfferDetail_offer_CASCADE(pk))
            /\ Order' = Delete(Order, {o \in DOMAIN Order :
                                          Order[o].offer_detail \in OfferDetail_offer_CASCADE(pk)})
            /\ response' = Resp("offers_destroy", user, pk, HTTP_204_NO_CONTENT)
    /\ UNCHANGED <<auth_user, UserProfile, Token, Review, last_id, pending>>

(***************************************************************************)
(* The request bodies tried against the offer endpoints.                   *)
(***************************************************************************)
\* A complete tier of the given type and price.
Tier(type, price) ==
    [title |-> "tier", revisions |-> 2, delivery_time_in_days |-> 7, price |-> price,
     offer_type |-> type]
SeqsUpTo(S, n) == UNION { [1..k -> S] : k \in 0..n }

\* POST bodies: every sequence of up to MaxDetails complete tiers, and a
\* body without `details`.
CreateOfferPayloads ==
    { [title |-> "offer", details |-> ds] :
        ds \in SeqsUpTo({Tier(t, 10) : t \in OFFER_TYPE_CHOICES}, MaxDetails) }
    \cup {[title |-> "offer"]}

\* A few POST bodies: one of each tier in two orders, and two faulty ones.
SomeCreateOfferPayloads ==
    { [title |-> "offer", details |-> ds] :
        ds \in { <<Tier("basic", 10), Tier("standard", 10), Tier("premium", 10)>>,
                 <<Tier("premium", 10), Tier("basic", 10), Tier("standard", 10)>>,
                 <<Tier("basic", 10), Tier("basic", 10), Tier("standard", 10)>>,
                 <<Tier("basic", 10)>> } }

\* PUT and PATCH bodies: a title; a tier patch with a price, one without
\* any field, one without offer_type; a title with two complete tiers.
UpdateOfferPayloads ==
    { [title |-> "renamed"],
      [details |-> <<[offer_type |-> "basic", price |-> 20]>>],
      [details |-> <<[offer_type |-> "premium"]>>],
      [details |-> <<[price |-> 20]>>],
      [title |-> "offer", details |-> <<Tier("basic", 10), Tier("standard", 10)>>] }

\* The accounts 1..MaxUsers have registered (odd ones as business, even ones
\* as customer); the profile of the last one (the profile with key 1) has
\* since been deleted through DELETE /api/profiles/1/.
InitAccounts ==
    /\ auth_user = RegisteredUsers(MaxUsers)
    /\ UserProfile = Delete(RegisteredProfiles(MaxUsers), {1})
    /\ Token = [k \in 1..MaxUsers |-> [user |-> k]]
    /\ Review = EmptyTable
    /\ pending = [w \in Workers |-> Idle]
    /\ response = NoResponse

InitOffers ==
    /\ InitAccounts
    /\ Offer = EmptyTable /\ OfferDetail = EmptyTable /\ Order = EmptyTable
    /\ last_id = [t \in Tables |-> IF t \in {"auth_user", "UserProfile", "Token"}
                                   THEN MaxUsers ELSE 0]

CreateOfferAny ==
    \E user \in Authenticated :
        \E data \in IF HasRole(user, "business") THEN CreateOfferPayloads
                     ELSE SomeCreateOfferPayloads :
            OfferViewSet_create("w1", user, data)
CreateOffer ==
    \E user \in Authenticated, data \in SomeCreateOfferPayloads : OfferViewSet_create("w1", user, data)
InsertOffer == OfferWriteSerializer_create_offer("w1")
InsertOfferDetail == OfferWriteSerializer_create_detail("w1")
UpdateOffer ==
    \E user \in Authenticated, pk \in 1..(last_id["Offer"] + 1), data \in UpdateOfferPayloads,
       method \in {"PUT", "PATCH"} : OfferViewSet_update(user, pk, data, method)
DestroyOffer ==
    \E user \in Authenticated, pk \in 1..(last_id["Offer"] + 1) : OfferViewSet_destroy(user, pk)

NextOfferCreate ==
    \/ CreateOfferAny
    \/ InsertOffer
    \/ InsertOfferDetail

SpecOfferCreate == InitOffers /\ [][NextOfferCreate]_vars

NextOffers ==
    \/ CreateOffer
    \/ InsertOffer
    \/ InsertOfferDetail
    \/ UpdateOffer
    \/ DestroyOffer

SpecOffers == InitOffers /\ [][NextOffers]_vars

\* A marketplace in which MarketOffers offers have been created through POST
\* /api/offers/, alternately by the business accounts 1 and 3, each with
\* its three tiers at price 10.
CreatedOffers ==
    [o \in 1..MarketOffers |-> [creator |-> IF o % 2 = 1 THEN 1 ELSE 3, title |-> "offer"]]
TierTypeAt(k) == CASE k % 3 = 1 -> "basic" [] k % 3 = 2 -> "standard" [] OTHER -> "premium"
CreatedOfferDetails ==
    [k \in 1..(3 * MarketOffers) |-> NewOfferDetail((k + 2) \div 3, Tier(TierTypeAt(k), 10))]
InitMarket ==
    /\ InitAccounts
    /\ Offer = CreatedOffers /\ OfferDetail = CreatedOfferDetails /\ Order = EmptyTable
    /\ last_id = [t \in Tables |->
                    CASE t \in {"auth_user", "UserProfile", "Token"} -> MaxUsers
                      [] t = "Offer" -> MarketOffers
                      [] t = "OfferDetail" -> 3 * MarketOffers
                      [] OTHER -> 0]

NextOfferOwner ==
    \/ UpdateOffer
    \/ DestroyOffer

SpecOfferOwner == InitMarket /\ [][NextOfferOwner]_vars

(***************************************************************************)
(* offers_app: reading offers.  An optional value (None or a number) is    *)
(* the empty tuple or the one-element tuple of the number.                 *)
(***************************************************************************)
None == <<>>

\* OfferDetail.Meta.ordering = ['offer', 'offer_type']: the rank of a type
\* in string order.
OfferTypeRank(offer_type) ==
    CASE offer_type = "basic" -> 1 [] offer_type = "premium" -> 2
      [] offer_type = "standard" -> 3 [] OTHER -> 0

\* list(obj.details.values_list(field, flat=True)) for the tiers in S
RECURSIVE values_list(_, _)
values_list(S, field) ==
    IF S = {} THEN <<>>
    ELSE LET first == CHOOSE k \in S : \A j \in S :
                         \/ OfferTypeRank(OfferDetail[k].offer_type)
                               < OfferTypeRank(OfferDetail[j].offer_type)
                         \/ /\ OfferTypeRank(OfferDetail[k].offer_type)
                                  = OfferTypeRank(OfferDetail[j].offer_type)
                            /\ k <= j
         IN <<OfferDetail[first][field]>> \o values_list(S \ {first}, field)

min_mutant(xs) == xs[1]

\* Python's min() of a non-empty list
RECURSIVE min(_)
min(xs) ==
    IF Len(xs) = 1 THEN xs[1]
    ELSE LET rest == min(Tail(xs)) IN IF rest < xs[1] THEN rest ELSE xs[1]

\* OfferListSerializer.get_min_price and OfferRetrieveSerializer.get_min_price
get_min_price(obj) ==
    LET prices == values_list(DetailsOf(obj), "price") IN
    IF prices # <<>> THEN <<min(prices)>> ELSE None

\* get_min_delivery_time of both serializers
get_min_delivery_time(obj) ==
    LET times == values_list(DetailsOf(obj), "delivery_time_in_days") IN
    IF times # <<>> THEN <<min(times)>> ELSE None

\* The two computed fields of a serialized offer.
OfferRetrieveSerializer_data(obj) ==
    [min_price |-> get_min_price(obj), min_delivery_time |-> get_min_delivery_time(obj)]

\* RetrieveModelMixin.retrieve on OfferViewSet: GET /api/offers/{pk}/
OfferViewSet_retrieve(user, pk) ==
    /\ response' = IF pk \notin DOMAIN Offer
                   THEN Resp("offers_retrieve", user, pk, HTTP_404_NOT_FOUND)
                   ELSE RespTo("offers_retrieve", user, pk, HTTP_200_OK,
                               OfferRetrieveSerializer_data(pk))
    /\ UNCHANGED <<auth_user, UserProfile, Token, Offer, OfferDetail, Order, Review,
                   last_id, pending>>

\* ListModelMixin.list on OfferViewSet: GET /api/offers/, open to everyone;
\* the offers fit on one page.
OfferViewSet_list ==
    /\ response' = RespTo("offers_list", 0, 0, HTTP_200_OK,
                          [o \in DOMAIN Offer |-> OfferRetrieveSerializer_data(o)])
    /\ UNCHANGED <<auth_user, UserProfile, Token, Offer, OfferDetail, Order, Review,
                   last_id, pending>>

\* The body with which the offers of the marketplace were created.
CreatedOfferPayload ==
    [title |-> "offer",
     details |-> <<Tier("basic", 10), Tier("standard", 10), Tier("premium", 10)>>]

\* Update requests with tier patches: PATCH with a lower price, with a
\* shorter delivery time, and with two patches of the same tier; PUT with a
\* title and two complete tiers.
TierPatchRequests ==
    { [method |-> "PATCH", data |-> d] :
        d \in { [details |-> <<[offer_type |-> "basic", price |-> 5]>>],
                [details |-> <<[offer_type |-> "standard", delivery_time_in_days |-> 3]>>],
                [details |-> <<[offer_type |-> "premium", price |-> 20],
                               [offer_type |-> "premium", title |-> "gold"]>>] } }
    \cup { [method |-> "PUT",
            data |-> [title |-> "offer",
                      details |-> <<Tier("basic", 10), Tier("standard", 10)>>]] }

\* The accounts that have created an offer.
OfferCreators == {Offer[o].creator : o \in DOMAIN Offer}

\* The marketplace while its last offer is being created: the offer row is
\* inserted, the request is about to insert the first tier.
InitMarketCreating ==
    /\ auth_user = RegisteredUsers(MaxUsers)
    /\ UserProfile = Delete(RegisteredProfiles(MaxUsers), {1})
    /\ Token = [k \in 1..MaxUsers |-> [user |-> k]]
    /\ Review = EmptyTable
    /\ response = NoResponse
    /\ Offer = CreatedOffers
    /\ OfferDetail = [k \in 1..(3 * (MarketOffers - 1)) |-> CreatedOfferDetails[k]]
    /\ Order = EmptyTable
    /\ last_id = [t \in Tables |->
                    CASE t \in {"auth_user", "UserProfile", "Token"} -> MaxUsers
                      [] t = "Offer" -> MarketOffers
                      [] t = "OfferDetail" -> 3 * (MarketOffers - 1)
                      [] OTHER -> 0]
    /\ pending = [w \in Workers |->
                    IF w = "w1"
                    THEN [pc |-> "create_detail", user |-> CreatedOffers[MarketOffers].creator,
                          data |-> CreatedOfferPayload, offer |-> MarketOffers, i |-> 1]
                    ELSE Idle]

PatchOfferTiers ==
    \E user \in OfferCreators, pk \in {MarketOffers, MarketOffers + 1}, r \in TierPatchRequests :
        OfferViewSet_update(user, pk, r.data, r.method)
RetrieveOffer ==
    \E user \in OfferCreators, pk \in (MarketOffers - 1)..(MarketOffers + 1) :
        OfferViewSet_retrieve(user, pk)
ListOffers == OfferViewSet_list

NextOfferTiers ==
    \/ InsertOfferDetail
    \/ PatchOfferTiers
    \/ RetrieveOffer
    \/ ListOffers

SpecOfferTiers == InitMarketCreating /\ [][NextOfferTiers]_vars

\* Deletions of offers between the steps of a creation and among updates.
NextOfferDelete ==
    \/ InsertOfferDetail
    \/ PatchOfferTiers
    \/ DestroyOffer

SpecOfferDelete == InitMarketCreating /\ [][NextOfferDelete]_vars

\* No request is between two of its statements.
NoRequestInFlight == \A w \in Workers : pending[w] = Idle

\* Offer requests one after the other: an update or a delete starts only
\* when the creation before it has completed.
UpdateOfferAfter == NoRequestInFlight /\ UpdateOffer
DestroyOfferAfter == NoRequestInFlight /\ DestroyOffer

NextOfferSequence ==
    \/ CreateOffer
    \/ InsertOffer
    \/ InsertOfferDetail
    \/ UpdateOfferAfter
    \/ DestroyOfferAfter

SpecOfferSequence == InitOffers /\ [][NextOfferSequence]_vars

(***************************************************************************)
(* orders_app.                                                             *)
(***************************************************************************)
\* order.offer_detail.offer.creator
OfferCreatorOf(order) == Offer[OfferDetail[Order[order].offer_detail].offer].creator

OrderSerializer_is_valid_mutant(data, partial) ==
    /\ ("offer_detail_id" \in DOMAIN data => data["offer_detail_id"] \in DOMAIN OfferDetail)
    /\ (~partial => "offer_detail_id" \in DOMAIN data)

\* OrderSerializer.is_valid: offer_detail_id is a PrimaryKeyRelatedField over
\* all tiers, required unless the update is partial; status is a ChoiceField
\* with the model default.
OrderSerializer_is_valid(data, partial) ==
    /\ ("offer_detail_id" \in DOMAIN data => data["offer_detail_id"] \in DOMAIN OfferDetail)
    /\ ("status" \in DOMAIN data => data["status"] \in STATUS_CHOICES)
    /\ (~partial => "offer_detail_id" \in DOMAIN data)

OrderViewSet_get_queryset_mutant(user) ==
    {o \in DOMAIN Order : Order[o].buyer = user}

\* OrderViewSet.get_queryset: the orders the user buys or sells.
OrderViewSet_get_queryset(user) ==
    {o \in DOMAIN Order : Order[o].buyer = user \/ OfferCreatorOf(o) = user}

OrderViewSet_create_denied_mutant(user) == FALSE

\* OrderViewSet.perform_create: no profile, or profile.type != 'customer'
OrderViewSet_create_denied(user) == ~HasRole(user, "customer")

\* OrderViewSet.perform_create behind CreateModelMixin.create:
\* POST /api/orders/
OrderViewSet_create(user, data) ==
    /\ last_id["Order"] < MaxOrders
    /\ IF ~OrderSerializer_is_valid(data, FALSE)
       THEN /\ response' = RespTo("orders_create", user, 0, HTTP_400_BAD_REQUEST, data)
            /\ UNCHANGED <<Order, last_id>>
       ELSE IF OrderViewSet_create_denied(user)
       THEN /\ response' = RespTo("orders_create", user, 0, HTTP_403_FORBIDDEN, data)
            /\ UNCHANGED <<Order, last_id>>
       ELSE LET id == last_id["Order"] + 1 IN
            /\ Order' = Insert(Order, id,
                    [buyer |-> user, offer_detail |-> data["offer_detail_id"],
                     status |-> IF "status" \in DOMAIN data THEN data["status"] ELSE "in_progress"])
            /\ last_id' = [last_id EXCEPT !["Order"] = id]
            /\ response' = RespTo("orders_create", user, id, HTTP_201_CREATED, data)
    /\ UNCHANGED <<auth_user, UserProfile, Token, Offer, OfferDetail, Review, pending>>

OrderViewSet_is_offer_creator_mutant(user, pk) == TRUE

\* instance.offer_detail.offer.creator != request.user, negated
OrderViewSet_is_offer_creator(user, pk) == OfferCreatorOf(pk) = user

\* OrderViewSet.update: PUT and PATCH /api/orders/{pk}/
OrderViewSet_update(user, pk, data, partial) ==
    LET op == IF partial THEN "orders_partial_update" ELSE "orders_update" IN
    /\ IF pk \notin OrderViewSet_get_queryset(user)
       THEN /\ response' = RespTo(op, user, pk, HTTP_404_NOT_FOUND, data)
            /\ UNCHANGED Order
       ELSE IF ~OrderViewSet_is_offer_creator(user, pk)
       THEN /\ response' = RespTo(op, user, pk, HTTP_403_FORBIDDEN, data)
            /\ UNCHANGED Order
       ELSE IF ~OrderSerializer_is_valid(data, partial)
       THEN /\ response' = RespTo(op, user, pk, HTTP_400_BAD_REQUEST, data)
            /\ UNCHANGED Order
       ELSE /\ Order' = [Order EXCEPT ![pk] =
                    [buyer |-> @.buyer,
                     offer_detail |-> IF "offer_detail_id" \in DOMAIN data
                                      THEN data["offer_detail_id"] ELSE @.offer_detail,
                     status |-> IF "status" \in DOMAIN data THEN data["status"] ELSE @.status]]
            /\ response' = RespTo(op, user, pk, HTTP_200_OK, data)
    /\ UNCHANGED <<auth_user, UserProfile, Token, Offer, OfferDetail, Review, last_id, pending>>

\* DestroyModelMixin.destroy on OrderViewSet: DELETE /api/orders/{pk}/
OrderViewSet_destroy(user, pk) ==
    /\ IF pk \notin OrderViewSet_get_queryset(user)
       THEN /\ response' = Resp("orders_destroy", user, pk, HTTP_404_NOT_FOUND)
            /\ UNCHANGED Order
       ELSE /\ Order' = Delete(Order, {pk})
            /\ response' = Resp("orders_destroy", user, pk, HTTP_204_NO_CONTENT)
    /\ UNCHANGED <<auth_user, UserProfile, Token, Offer, OfferDetail, Review, last_id, pending>>

\* Request bodies: orders of the first tier of the first and of the second
\* offer and of a tier that does not exist, with and without a status, and
\* one with a status that is no choice.
CreateOrderPayloads ==
    { [offer_detail_id |-> 1], [offer_detail_id |-> 4], [offer_detail_id |-> 3 * MarketOffers + 1],
      [offer_detail_id |-> 1, status |-> "completed"], [status |-> "in_progress"],
      [offer_detail_id |-> 1, status |-> "shipped"] }
UpdateOrderPayloads ==
    { [status |-> st] : st \in STATUS_CHOICES \cup {"shipped"} }
    \cup { [offer_detail_id |-> 4], [offer_detail_id |-> 1, status |-> "completed"] }

CreateOrder ==
    \E user \in Authenticated, data \in CreateOrderPayloads : OrderViewSet_create(user, data)
UpdateOrder ==
    \E user \in Authenticated, pk \in 1..(last_id["Order"] + 1), data \in UpdateOrderPayloads,
       partial \in BOOLEAN : OrderViewSet_update(user, pk, data, partial)
DestroyOrder ==
    \E user \in Authenticated, pk \in 1..(last_id["Order"] + 1) : OrderViewSet_destroy(user, pk)

NextOrders ==
    \/ CreateOrder
    \/ UpdateOrder
    \/ DestroyOrder

SpecOrders == InitMarket /\ [][NextOrders]_vars

(***************************************************************************)
(* orders_app: reading orders and the two order counters.                  *)
(***************************************************************************)
\* ListModelMixin.list on OrderViewSet: GET /api/orders/ (no pagination)
OrderViewSet_list(user) ==
    /\ response' = RespTo("orders_list", user, 0, HTTP_200_OK, OrderViewSet_get_queryset(user))
    /\ UNCHANGED <<auth_user, UserProfile, Token, Offer, OfferDetail, Order, Review,
                   last_id, pending>>

\* RetrieveModelMixin.retrieve on OrderViewSet: GET /api/orders/{pk}/
OrderViewSet_retrieve(user, pk) ==
    /\ response' = IF pk \notin OrderViewSet_get_queryset(user)
                   THEN Resp("orders_retrieve", user, pk, HTTP_404_NOT_FOUND)
                   ELSE RespTo("orders_retrieve", user, pk, HTTP_200_OK, Order[pk])
    /\ UNCHANGED <<auth_user, UserProfile, Token, Offer, OfferDetail, Order, Review,
                   last_id, pending>>

Order_objects_filter_mutant(business_user_id, status) ==
    {o \in DOMAIN Order : OfferCreatorOf(o) = business_user_id}

\* Order.objects.filter(offer_detail__offer__creator_id=business_user_id,
\*                      status=status)
Order_objects_filter(business_user_id, status) ==
    {o \in DOMAIN Order : OfferCreatorOf(o) = business_user_id /\ Order[o].status = status}

\* OrderCountView.retrieve: GET /api/order-count/{business_user_id}/
OrderCountView_retrieve(user, business_user_id) ==
    /\ response' = IF business_user_id \notin DOMAIN auth_user
                   THEN Resp("order_count", user, business_user_id, HTTP_404_NOT_FOUND)
                   ELSE RespTo("order_count", user, business_user_id, HTTP_200_OK,
                               [order_count |->
                                   Cardinality(Order_objects_filter(business_user_id, "in_progress"))])
    /\ UNCHANGED <<auth_user, UserProfile, Token, Offer, OfferDetail, Order, Review,
                   last_id, pending>>

\* CompletedOrderCountView.retrieve:
\* GET /api/completed-order-count/{business_user_id}/
CompletedOrderCountView_retrieve(user, business_user_id) ==
    /\ response' = IF business_user_id \notin DOMAIN auth_user
                   THEN Resp("completed_order_count", user, business_user_id, HTTP_404_NOT_FOUND)
                   ELSE RespTo("completed_order_count", user, business_user_id, HTTP_200_OK,
                               [completed_order_count |->
                                   Cardinality(Order_objects_filter(business_user_id, "completed"))])
    /\ UNCHANGED <<auth_user, UserProfile, Token, Offer, OfferDetail, Order, Review,
                   last_id, pending>>

ListOrders == \E user \in Authenticated : OrderViewSet_list(user)
RetrieveOrder ==
    \E user \in Authenticated, pk \in 1..(last_id["Order"] + 1) : OrderViewSet_retrieve(user, pk)
CountOrders ==
    \E user \in Authenticated, b \in 1..(MaxUsers + 1) : OrderCountView_retrieve(user, b)
CountCompletedOrders ==
    \E user \in Authenticated, b \in 1..(MaxUsers + 1) : CompletedOrderCountView_retrieve(user, b)

NextOrderViews ==
    \/ CreateOrder
    \/ UpdateOrder
    \/ DestroyOrder
    \/ ListOrders
    \/ RetrieveOrder
    \/ CountOrders
    \/ CountCompletedOrders

SpecOrderViews == InitMarket /\ [][NextOrderViews]_vars

(***************************************************************************)
(* reviews_app.  ReviewViewSet.perform_create looks for an existing review *)
(* and then inserts: two statements, with other requests in between.       *)
(***************************************************************************)
\* ReviewSerializer.is_valid: business_user is a PrimaryKeyRelatedField over
\* all accounts; business_user, rating and description are required unless
\* the update is partial; reviewer is read-only.
ReviewSerializer_is_valid(data, partial) ==
    /\ ("business_user" \in DOMAIN data => data["business_user"] \in DOMAIN auth_user)
    /\ (~partial => {"business_user", "rating", "description"} \subseteq DOMAIN data)

\* Review.objects.filter(business_user=..., reviewer=...)
ReviewsBy(reviewer, business_user) ==
    {r \in DOMAIN Review :
        Review[r].reviewer = reviewer /\ Review[r].business_user = business_user}

Review_unique_together_mutant(reviewer, business_user, pk) == TRUE

\* Review.Meta.unique_together = ['reviewer', 'business_user'], as the
\* database checks it when the row pk is written: no other row has the pair.
Review_unique_together(reviewer, business_user, pk) ==
    ReviewsBy(reviewer, business_user) \ {pk} = {}

\* ReviewViewSet.perform_create (behind CreateModelMixin.create) up to the
\* existence check: POST /api/reviews/
ReviewViewSet_create(w, user, data) ==
    /\ pending[w] = Idle
    /\ last_id["Review"] + Cardinality({v \in Workers : pending[v].pc = "save_review"})
          < MaxReviews
    /\ IF ~ReviewSerializer_is_valid(data, FALSE)
       THEN /\ response' = RespTo("reviews_create", user, 0, HTTP_400_BAD_REQUEST, data)
            /\ UNCHANGED pending
       ELSE IF ~HasRole(user, "customer")
       THEN /\ response' = RespTo("reviews_create", user, 0, HTTP_403_FORBIDDEN, data)
            /\ UNCHANGED pending
       ELSE IF ReviewsBy(user, data["business_user"]) # {}
       THEN /\ response' = RespTo("reviews_create", user, 0, HTTP_400_BAD_REQUEST, data)
            /\ UNCHANGED pending
       ELSE /\ pending' = [pending EXCEPT ![w] = [pc |-> "save_review", user |-> user, data |-> data]]
            /\ UNCHANGED response
    /\ UNCHANGED <<auth_user, UserProfile, Token, Offer, OfferDetail, Order, Review, last_id>>

\* serializer.save(reviewer=self.request.user): the INSERT; unique_together
\* (reviewer, business_user) rejects a duplicate with an IntegrityError that
\* nothing catches.
ReviewViewSet_save(w) ==
    /\ pending[w].pc = "save_review"
    /\ LET f == pending[w]
           id == last_id["Review"] + 1 IN
       IF ~Review_unique_together(f.user, f.data["business_user"], id)
       THEN /\ response' = RespTo("reviews_create", f.user, 0, HTTP_500_INTERNAL_SERVER_ERROR, f.data)
            /\ UNCHANGED <<Review, last_id>>
       ELSE /\ Review' = Insert(Review, id,
                    [reviewer |-> f.user, business_user |-> f.data["business_user"],
                     rating |-> f.data["rating"], description |-> f.data["description"]])
            /\ last_id' = [last_id EXCEPT !["Review"] = id]
            /\ response' = RespTo("reviews_create", f.user, id, HTTP_201_CREATED, f.data)
    /\ pending' = [pending EXCEPT ![w] = Idle]
    /\ UNCHANGED <<auth_user, UserProfile, Token, Offer, OfferDetail, Order>>

\* UpdateModelMixin.update on ReviewViewSet: PUT and PATCH /api/reviews/{pk}/
ReviewViewSet_update(user, pk, data, partial) ==
    LET op == IF partial THEN "reviews_partial_update" ELSE "reviews_update" IN
    /\ IF pk \notin DOMAIN Review
       THEN /\ response' = RespTo(op, user, pk, HTTP_404_NOT_FOUND, data)
            /\ UNCHANGED Review
       ELSE IF ~ReviewSerializer_is_valid(data, partial)
       THEN /\ response' = RespTo(op, user, pk, HTTP_400_BAD_REQUEST, data)
            /\ UNCHANGED Review
       ELSE LET row == SetAttrs(Review[pk], Only(data, {"business_user", "rating", "description"})) IN
            IF ~Review_unique_together(row.reviewer, row.business_user, pk)
            THEN /\ response' = RespTo(op, user, pk, HTTP_500_INTERNAL_SERVER_ERROR, data)
                 /\ UNCHANGED Review
            ELSE /\ Review' = [Review EXCEPT ![pk] = row]
                 /\ response' = RespTo(op, user, pk, HTTP_200_OK, data)
    /\ UNCHANGED <<auth_user, UserProfile, Token, Offer, OfferDetail, Order, last_id, pending>>

\* DestroyModelMixin.destroy on ReviewViewSet: DELETE /api/reviews/{pk}/
ReviewViewSet_destroy(user, pk) ==
    /\ IF pk \notin DOMAIN Review
       THEN /\ response' = Resp("reviews_destroy", user, pk, HTTP_404_NOT_FOUND)
            /\ UNCHANGED Review
       ELSE /\ Review' = Delete(Review, {pk})
            /\ response' = Resp("reviews_destroy", user, pk, HTTP_204_NO_CONTENT)
    /\ UNCHANGED <<auth_user, UserProfile, Token, Offer, OfferDetail, Order, last_id, pending>>

\* Request bodies: reviews of the two business accounts, of the customer
\* account 2, of an account that does not exist, and a body without rating.
CreateReviewPayloads ==
    { [business_user |-> b, rating |-> 4, description |-> "good"] : b \in {1, 2, 3, MaxUsers + 1} }
    \cup { [business_user |-> 1, description |-> "good"] }
UpdateReviewPayloads ==
    { [rating |-> 1], [business_user |-> 3],
      [business_user |-> 1, rating |-> 5, description |-> "fine"] }

CreateReview ==
    \E w \in Workers, user \in Authenticated, data \in CreateReviewPayloads :
        ReviewViewSet_create(w, user, data)
SaveReview == \E w \in Workers : ReviewViewSet_save(w)
UpdateReview ==
    \E user \in Authenticated, pk \in 1..(last_id["Review"] + 1), data \in UpdateReviewPayloads,
       partial \in BOOLEAN : ReviewViewSet_update(user, pk, data, partial)
DestroyReview ==
    \E user \in Authenticated, pk \in 1..(last_id["Review"] + 1) : ReviewViewSet_destroy(user, pk)

NextReviews ==
    \/ CreateReview
    \/ SaveReview
    \/ UpdateReview
    \/ DestroyReview

SpecReviews == InitMarket /\ [][NextReviews]_vars

(***************************************************************************)
(* reviews_app: platform statistics.  A mean is the pair of the sum and    *)
(* the number of the ratings; a number with one decimal is its count of    *)
(* tenths (47 is 4.7).                                                      *)
(***************************************************************************)
RECURSIVE Sum(_, _)
\* SUM(field) over the rows in S of the Review table
Sum(S, field) ==
    IF S = {} THEN 0
    ELSE LET r == CHOOSE x \in S : TRUE IN Review[r][field] + Sum(S \ {r}, field)

\* reviews.aggregate(Avg('rating'))['rating__avg']: None over no rows
Avg(field) ==
    IF DOMAIN Review = {} THEN None
    ELSE <<[sum |-> Sum(DOMAIN Review, field), count |-> Cardinality(DOMAIN Review)]>>

round_mutant(avg) == (10 * avg.sum) \div avg.count

\* round(avg_rating, 1): the nearest number of tenths, a tie going to the
\* even one
round(avg) ==
    LET q == (10 * avg.sum) \div avg.count
        r == (10 * avg.sum) % avg.count
    IN  IF 2 * r < avg.count THEN q
        ELSE IF 2 * r > avg.count THEN q + 1
        ELSE IF q % 2 = 0 THEN q ELSE q + 1

\* base_info_view: GET /api/base-info/ (AllowAny)
base_info_view ==
    /\ LET avg_rating == Avg("rating") IN
       response' = RespTo("base_info", 0, 0, HTTP_200_OK,
            [review_count |-> Cardinality(DOMAIN Review),
             average_rating |-> IF avg_rating # None /\ avg_rating[1].sum # 0
                                THEN round(avg_rating[1]) ELSE 0,
             business_profile_count |->
                 Cardinality({p \in DOMAIN UserProfile : UserProfile[p].type = "business"}),
             offer_count |-> Cardinality(DOMAIN Offer)])
    /\ UNCHANGED <<auth_user, UserProfile, Token, Offer, OfferDetail, Order, Review,
                   last_id, pending>>

\* The ratings of the stored reviews: Review.rating is an IntegerField
\* without validators.
Ratings == {0, 4, 5}

\* The market after customer account 2 has reviewed up to StatsReviews
\* accounts (perform_create accepts every existing account as business_user).
InitReviewed ==
    /\ auth_user = RegisteredUsers(MaxUsers)
    /\ UserProfile = Delete(RegisteredProfiles(MaxUsers), {1})
    /\ Token = [k \in 1..MaxUsers |-> [user |-> k]]
    /\ pending = [w \in Workers |-> Idle]
    /\ response = NoResponse
    /\ Offer = CreatedOffers /\ OfferDetail = CreatedOfferDetails /\ Order = EmptyTable
    /\ \E n \in 0..StatsReviews : \E rating \in [1..n -> Ratings] :
          /\ Review = [r \in 1..n |-> [reviewer |-> 2, business_user |-> r,
                                       rating |-> rating[r], description |-> "good"]]
          /\ last_id = [t \in Tables |->
                          CASE t \in {"auth_user", "UserProfile", "Token"} -> MaxUsers
                            [] t = "Offer" -> MarketOffers
                            [] t = "OfferDetail" -> 3 * MarketOffers
                            [] t = "Review" -> n
                            [] OTHER -> 0]

BaseInfo == base_info_view

NextStats ==
    \/ BaseInfo
    \/ DestroyReview
    \/ DestroyOffer

SpecStats == InitReviewed /\ [][NextStats]_vars

(***************************************************************************)
(* api.permissions.  An object is the function from its attribute names to *)
(* their values; a request is its method and its user.                     *)
(***************************************************************************)
\* rest_framework.permissions.SAFE_METHODS
SAFE_METHODS == {"GET", "HEAD", "OPTIONS"}

hasattr(obj, name) == name \in DOMAIN obj

IsOwnerOrReadOnly_has_object_permission_mutant(method, user, obj) ==
    IF method \in SAFE_METHODS THEN TRUE
    ELSE IF hasattr(obj, "creator") THEN obj["creator"] = user
    ELSE IF hasattr(obj, "user") THEN obj["user"] = user
    ELSE IF hasattr(obj, "buyer") THEN obj["buyer"] = user
    ELSE IF hasattr(obj, "reviewer") THEN obj["reviewer"] = user
    ELSE FALSE

\* IsOwnerOrReadOnly.has_object_permission(request, view, obj)
IsOwnerOrReadOnly_has_object_permission(method, user, obj) ==
    IF method \in SAFE_METHODS THEN TRUE
    ELSE IF hasattr(obj, "user") THEN obj["user"] = user
    ELSE IF hasattr(obj, "creator") THEN obj["creator"] = user
    ELSE IF hasattr(obj, "buyer") THEN obj["buyer"] = user
    ELSE IF hasattr(obj, "reviewer") THEN obj["reviewer"] = user
    ELSE FALSE

\* The methods of a request, the accounts that send it, and the objects it
\* may address: every combination of the four owner attributes and one
\* other attribute, each naming one of the two accounts.
HttpMethods == SAFE_METHODS \cup {"POST", "PUT", "PATCH", "DELETE"}
Requesters == {1, 2}
ObjectAttrs == {"user", "creator", "buyer", "reviewer", "business_user"}
Objects == UNION { [attrs -> Requesters] : attrs \in SUBSET ObjectAttrs }

\* The evaluation of the permission for one request; the answer is kept
\* with its inputs.
CheckObjectPermission ==
    /\ response = NoResponse
    /\ \E method \in HttpMethods, user \in Requesters, obj \in Objects :
          response' = RespTo("has_object_permission", user, 0, 0,
                [method |-> method, obj |-> obj,
                 granted |-> IsOwnerOrReadOnly_has_object_permission(method, user, obj)])
    /\ UNCHANGED <<auth_user, UserProfile, Token, Offer, OfferDetail, Order, Review,
                   last_id, pending>>

NextPermission == CheckObjectPermission

SpecPermission == InitMarket /\ [][NextPermission]_vars

(***************************************************************************)
(* Properties of the offer endpoints.                                      *)
(***************************************************************************)
\* The body supplies exactly three tiers, one of each offer_type.
ThreeTiersOneOfEach(data) ==
    /\ "details" \in DOMAIN data
    /\ Len(data["details"]) = 3
    /\ \A t \in OFFER_TYPE_CHOICES :
          Cardinality({i \in 1..3 : data["details"][i]["offer_type"] = t}) = 1

\* C1: POST /api/offers/ by a business user is answered 201 only for a body
\* with exactly three tiers, one each of basic, standard and premium; for
\* every other body it is answered 400 and writes no offer and no tier, and
\* no request with such a body ever gets as far as the first INSERT.
C1_CreateOfferThreeTiers ==
    [][/\ (response' # response /\ response'.op = "offers_create" =>
            /\ (response'.status = HTTP_201_CREATED => ThreeTiersOneOfEach(response'.data))
            /\ (HasRole(response'.user, "business") /\ ~ThreeTiersOneOfEach(response'.data) =>
                  /\ response'.status = HTTP_400_BAD_REQUEST
                  /\ UNCHANGED <<Offer, OfferDetail>>))
       /\ \A w \in Workers :
            pending'[w] # Idle => ThreeTiersOneOfEach(pending'[w].data)]_vars

\* A business user has posted three tiers with a duplicated type, was
\* answered 400, and no offer exists.
C1_Witness ==
    /\ response.op = "offers_create"
    /\ response.status = HTTP_400_BAD_REQUEST
    /\ HasRole(response.user, "business")
    /\ "details" \in DOMAIN response.data
    /\ Len(response.data["details"]) = 3
    /\ response.data["details"][1]["offer_type"] = response.data["details"][2]["offer_type"]
    /\ Offer = EmptyTable /\ OfferDetail = EmptyTable

\* C2: no state holds an offer with fewer than three tiers.
C2_NoOfferWithFewerThanThreeTiers ==
    \A o \in DOMAIN Offer : Cardinality(DetailsOf(o)) >= 3

\* C5: PUT, PATCH and DELETE of an existing offer by anyone but its creator
\* are answered 403 and leave the offer and every tier as they were; by the
\* creator, a valid update is answered 200 and applied, and a delete is
\* answered 204 and removes the offer.
C5_OnlyCreatorChangesOffer ==
    [][response' # response /\ response'.pk \in DOMAIN Offer
         /\ response'.op \in {"offers_update", "offers_partial_update", "offers_destroy"} =>
         IF Offer[response'.pk].creator # response'.user
         THEN /\ response'.status = HTTP_403_FORBIDDEN
              /\ UNCHANGED <<Offer, OfferDetail>>
         ELSE IF response'.op = "offers_destroy"
         THEN /\ response'.status = HTTP_204_NO_CONTENT
              /\ response'.pk \notin DOMAIN Offer'
         ELSE LET method == IF response'.op = "offers_update" THEN "PUT" ELSE "PATCH" IN
              OfferWriteSerializer_is_valid(response'.data, method) =>
                 /\ response'.status = HTTP_200_OK
                 /\ ("title" \in DOMAIN response'.data =>
                       Offer'[response'.pk].title = response'.data["title"])]_vars

\* Another business user has patched an existing offer and was refused.
C5_Witness ==
    /\ response.op = "offers_partial_update"
    /\ response.status = HTTP_403_FORBIDDEN
    /\ response.pk \in DOMAIN Offer
    /\ Offer[response.pk].creator # response.user
    /\ HasRole(response.user, "business")
    /\ "details" \in DOMAIN response.data

(***************************************************************************)
(* Properties of the order and review endpoints.                           *)
(***************************************************************************)
OrderUpdates == {"orders_update", "orders_partial_update"}

\* What the offer creator's valid update does: 200, and the status is the
\* supplied one.
CreatorSetsStatus ==
    OrderSerializer_is_valid(response'.data, response'.op = "orders_partial_update") =>
        /\ response'.status = HTTP_200_OK
        /\ ("status" \in DOMAIN response'.data =>
               Order'[response'.pk].status = response'.data["status"])

\* C6 as stated: an update of an existing order by anyone but the creator of
\* the ordered tier's offer is answered 403 and leaves the order as it was;
\* by that creator it sets the status to the supplied value.
C6_UpdateOrderForbiddenUnlessCreator ==
    [][response' # response /\ response'.op \in OrderUpdates /\ response'.pk \in DOMAIN Order =>
         IF OfferCreatorOf(response'.pk) # response'.user
         THEN response'.status = HTTP_403_FORBIDDEN /\ UNCHANGED Order
         ELSE CreatorSetsStatus]_vars

\* C6, amended: the buyer is answered 403, an account that is neither buyer
\* nor offer creator is answered 404; both leave the order as it was; the
\* offer creator sets the status to the supplied value.
C6_UpdateOrderRefusedUnlessCreator ==
    [][response' # response /\ response'.op \in OrderUpdates /\ response'.pk \in DOMAIN Order =>
         IF OfferCreatorOf(response'.pk) # response'.user
         THEN /\ response'.status = IF Order[response'.pk].buyer = response'.user
                                    THEN HTTP_403_FORBIDDEN ELSE HTTP_404_NOT_FOUND
              /\ UNCHANGED Order
         ELSE CreatorSetsStatus]_vars

\* The buyer has tried to complete their own order, was answered 403, and
\* the order is still in progress.
C6_Witness ==
    /\ response.op = "orders_partial_update"
    /\ response.status = HTTP_403_FORBIDDEN
    /\ response.pk \in DOMAIN Order
    /\ Order[response.pk].buyer = response.user
    /\ response.data = [status |-> "completed"]
    /\ Order[response.pk].status = "in_progress"

\* C3: a POST /api/reviews/ by a reviewer who already has a review of that
\* business user is answered with the conflict error (400 or 409), whenever
\* the other review was written.
C3_DuplicateReviewIsConflict ==
    [][response' # response /\ response'.op = "reviews_create"
         /\ "business_user" \in DOMAIN response'.data
         /\ ReviewsBy(response'.user, response'.data["business_user"]) # {} =>
         response'.status \in {HTTP_400_BAD_REQUEST, 409}]_vars

\* C4: PUT, PATCH and DELETE of an existing review by anyone but its
\* reviewer are answered 403 and leave the review as it was.
C4_OnlyReviewerChangesReview ==
    [][response' # response /\ response'.pk \in DOMAIN Review
         /\ response'.op \in {"reviews_update", "reviews_partial_update", "reviews_destroy"}
         /\ Review[response'.pk].reviewer # response'.user =>
         response'.status = HTTP_403_FORBIDDEN /\ UNCHANGED Review]_vars

(***************************************************************************)
(* Properties of the profile endpoints.                                    *)
(***************************************************************************)

\* C7: a PATCH of /api/profile/{user_id}/ succeeds only when the acting user's
\* id equals user_id; any other authenticated account is answered 403 and the
\* accounts and profiles are left as they were.
C7_PatchProfileOnlyOwner ==
    [][response'.op = "profile_patch" =>
         /\ (response'.status = HTTP_200_OK => response'.user = response'.pk)
         /\ (response'.user # response'.pk =>
                /\ response'.status = HTTP_403_FORBIDDEN
                /\ UNCHANGED <<auth_user, UserProfile>>)]_vars

\* A foreign account has patched an existing profile and was refused.
C7_Witness ==
    /\ response.op = "profile_patch"
    /\ response.user # response.pk
    /\ ProfilesOf(response.pk) # {}
    /\ response.status = HTTP_403_FORBIDDEN

\* C8: the role of a profile never changes once the profile exists.
C8_RoleImmutable ==
    [][\A p \in DOMAIN UserProfile :
          p \in DOMAIN UserProfile' => UserProfile'[p].type = UserProfile[p].type]_vars

\* C9: every account has exactly one profile.
C9_ExactlyOneProfile ==
    \A u \in DOMAIN auth_user : Cardinality(ProfilesOf(u)) = 1

\* C10: an account never exists without its profile and its token.
C10_RegistrationAtomic ==
    \A u \in DOMAIN auth_user : ProfilesOf(u) # {} /\ TokensOf(u) # {}

(***************************************************************************)
(* Properties of registration and login.                                   *)
(***************************************************************************)
\* No two accounts carry the same username.
UsernamesUnique ==
    \A u, v \in DOMAIN auth_user : auth_user[u].username = auth_user[v].username => u = v

\* C11: a registration whose username is taken by another account, or whose
\* password differs from repeated_password, is answered 400; every
\* registration that is not answered 201 is answered 400 and has created no
\* account, no profile and no token; usernames are unique in every state.
C11_RegistrationFailsCleanly ==
    /\ []UsernamesUnique
    /\ [][response' # response /\ response'.op = "registration" =>
            LET request == response'.data.request IN
            /\ (UsersNamed(request.username) \ {response'.user} # {}
                   \/ request.password # request.repeated_password =>
                   response'.status = HTTP_400_BAD_REQUEST)
            /\ (response'.status # HTTP_201_CREATED =>
                   /\ response'.status = HTTP_400_BAD_REQUEST
                   /\ response'.user \notin DOMAIN auth_user'
                   /\ UNCHANGED <<auth_user, UserProfile, Token>>)]_vars

\* Some account has exactly these credentials.
CredentialsMatch(request) ==
    \E u \in DOMAIN auth_user :
        auth_user[u].username = request.username /\ auth_user[u].password = request.password

AtMostOneToken == \A u \in DOMAIN auth_user : Cardinality(TokensOf(u)) <= 1

\* C13: every account holds at most one token; a token, once issued, is
\* never changed or removed; a successful registration returns the account's
\* token, and a successful login returns the account's token, the one it
\* held before the login if it held one.
C13_LoginReusesToken ==
    /\ []AtMostOneToken
    /\ [][/\ \A k \in DOMAIN Token : k \in DOMAIN Token' /\ Token'[k] = Token[k]
          /\ (response' # response /\ response'.op \in {"login", "registration"}
                 /\ response'.status \in {HTTP_200_OK, HTTP_201_CREATED} =>
                 LET user == response'.user
                     held == {k \in DOMAIN Token : Token[k].user = user}
                     holds == {k \in DOMAIN Token' : Token'[k].user = user} IN
                 /\ holds = {response'.data.body.token}
                 /\ (held # {} => holds = held))]_vars

\* A login has returned the one token its account holds, with two accounts
\* registered and no request in flight.
C13_Witness ==
    /\ response.op = "login"
    /\ response.status = HTTP_200_OK
    /\ TokensOf(response.user) = {response.data.body.token}
    /\ Cardinality(DOMAIN auth_user) = 2
    /\ \A w \in Workers : pending[w] = Idle

(***************************************************************************)
(* Properties of the role checks on creation.                              *)
(***************************************************************************)
\* C14: POST /api/offers/ by an account whose profile has another role than
\* business is answered 403 whatever the body, writes no offer and no tier
\* and starts no insert; every offer is inserted for an account whose role
\* is business.
C14_CreateOfferOnlyBusiness ==
    [][/\ (response' # response /\ response'.op = "offers_create"
              /\ ProfilesOf(response'.user) # {} /\ ~HasRole(response'.user, "business") =>
              /\ response'.status = HTTP_403_FORBIDDEN
              /\ UNCHANGED <<Offer, OfferDetail, pending>>)
       /\ \A w \in Workers : pending'[w] # Idle => HasRole(pending'[w].user, "business")
       /\ \A o \in DOMAIN Offer' \ DOMAIN Offer : HasRole(Offer'[o].creator, "business")]_vars

\* A customer has posted a body with one tier of each type and was answered
\* 403; no offer exists.
C14_Witness ==
    /\ response.op = "offers_create"
    /\ response.status = HTTP_403_FORBIDDEN
    /\ HasRole(response.user, "customer")
    /\ ThreeTiersOneOfEach(response.data)
    /\ Offer = EmptyTable /\ OfferDetail = EmptyTable

\* POST /api/orders/ has added exactly the order response'.pk, for this tier
\* and with the acting user as buyer, and has left every other order alone.
OneOrderPersisted ==
    /\ response'.status = HTTP_201_CREATED
    /\ response'.pk \notin DOMAIN Order
    /\ DOMAIN Order' = DOMAIN Order \cup {response'.pk}
    /\ Order'[response'.pk].offer_detail = response'.data["offer_detail_id"]
    /\ Order'[response'.pk].buyer = response'.user
    /\ \A o \in DOMAIN Order : Order'[o] = Order[o]

\* C15 as stated: POST /api/orders/ by an account whose role is not customer
\* is answered 403 and writes no order; by a customer, for an existing tier,
\* it persists exactly one order of that tier with the acting user as buyer.
C15_CreateOrderForbiddenUnlessCustomer ==
    [][response' # response /\ response'.op = "orders_create" =>
         IF ~HasRole(response'.user, "customer")
         THEN response'.status = HTTP_403_FORBIDDEN /\ UNCHANGED Order
         ELSE ("offer_detail_id" \in DOMAIN response'.data
                 /\ response'.data["offer_detail_id"] \in DOMAIN OfferDetail) =>
              OneOrderPersisted]_vars

\* C15, amended: a body that fails validation is answered 400 whoever sends
\* it; a valid body from an account whose role is not customer is answered
\* 403; both write no order; a valid body from a customer persists exactly
\* one order of the named tier with the acting user as buyer.
C15_CreateOrderRefusedUnlessCustomer ==
    [][response' # response /\ response'.op = "orders_create" =>
         IF ~OrderSerializer_is_valid(response'.data, FALSE)
         THEN response'.status = HTTP_400_BAD_REQUEST /\ UNCHANGED Order
         ELSE IF ~HasRole(response'.user, "customer")
         THEN response'.status = HTTP_403_FORBIDDEN /\ UNCHANGED Order
         ELSE OneOrderPersisted]_vars

\* A business account has ordered an existing tier and was answered 403; no
\* order exists.
C15_Witness ==
    /\ response.op = "orders_create"
    /\ response.status = HTTP_403_FORBIDDEN
    /\ HasRole(response.user, "business")
    /\ response.data = [offer_detail_id |-> 1]
    /\ Order = EmptyTable

\* C16: the order that POST /api/orders/ creates has status in_progress,
\* whatever the body holds, and the status of an order changes only in an
\* update by the creator of the ordered tier's offer.
C16_NewOrderInProgress ==
    [][/\ (response' # response /\ response'.op = "orders_create"
              /\ response'.status = HTTP_201_CREATED =>
              Order'[response'.pk].status = "in_progress")
       /\ \A o \in DOMAIN Order \cap DOMAIN Order' :
            Order'[o].status # Order[o].status =>
               /\ response'.op \in OrderUpdates
               /\ response'.pk = o
               /\ response'.user = OfferCreatorOf(o)]_vars

(***************************************************************************)
(* Properties of the review table.                                         *)
(***************************************************************************)
\* C17: in every state there is at most one review per pair of reviewer and
\* business user, whatever creations, updates (also of business_user) and
\* deletions have run and however they interleaved.
C17_OneReviewPerPair ==
    \A r1, r2 \in DOMAIN Review :
        (Review[r1].reviewer = Review[r2].reviewer
           /\ Review[r1].business_user = Review[r2].business_user) => r1 = r2

\* A reviewer with reviews of both business accounts has tried to move one
\* review to the other business account; the update was refused.
C17_Witness ==
    /\ response.op = "reviews_partial_update"
    /\ response.status = HTTP_500_INTERNAL_SERVER_ERROR
    /\ response.data = [business_user |-> 3]
    /\ Cardinality(DOMAIN Review) = 2
    /\ \A r \in DOMAIN Review : Review[r].reviewer = 2

(***************************************************************************)
(* Properties of reading and updating the tiers of an offer.               *)
(***************************************************************************)
\* v is None when S is empty and otherwise the least element of S.
IsMinimumOf(v, S) ==
    IF S = {} THEN v = None
    ELSE \E x \in S : v = <<x>> /\ \A y \in S : x <= y

\* body reports the minima over the current tiers of offer o.
ReportsMinima(body, o) ==
    /\ IsMinimumOf(body.min_price, {OfferDetail[k].price : k \in DetailsOf(o)})
    /\ IsMinimumOf(body.min_delivery_time,
                   {OfferDetail[k].delivery_time_in_days : k \in DetailsOf(o)})

\* C18: min_price and min_delivery_time in the answers of GET /api/offers/
\* and GET /api/offers/{id}/ are the minima of price and
\* delivery_time_in_days over the tiers the offer has when it is read, and
\* None when it has none; so the first read after an update shows the
\* lowered value.
C18_MinimaOverCurrentTiers ==
    [][response' # response /\ response'.status = HTTP_200_OK =>
         /\ (response'.op = "offers_retrieve" => ReportsMinima(response'.data, response'.pk))
         /\ (response'.op = "offers_list" =>
               /\ DOMAIN response'.data = DOMAIN Offer
               /\ \A o \in DOMAIN Offer : ReportsMinima(response'.data[o], o))]_vars

\* An offer whose basic tier was lowered to price 5 and whose standard tier
\* to 3 days has been read, and the answer shows 5 and 3.
C18_Witness ==
    /\ response.op = "offers_retrieve"
    /\ response.status = HTTP_200_OK
    /\ response.data = [min_price |-> <<5>>, min_delivery_time |-> <<3>>]
    /\ Cardinality(DetailsOf(response.pk)) = 3
    /\ \E k \in DetailsOf(response.pk) :
          OfferDetail[k].offer_type = "standard" /\ OfferDetail[k].delivery_time_in_days = 3
    /\ \E k \in DetailsOf(response.pk) :
          OfferDetail[k].offer_type = "premium" /\ OfferDetail[k].price = 10

OfferUpdates == {"offers_update", "offers_partial_update"}

\* The values a tier is created with when a patch names a type the offer
\* does not have.
TierDefaults ==
    [title |-> "", revisions |-> 0, delivery_time_in_days |-> 1, price |-> 0, features |-> <<>>]

\* The positions in the tier patches ds of the patches of type t that
\* supply field f.
Supplying(ds, t, f) ==
    {i \in 1..Len(ds) : /\ "offer_type" \in DOMAIN ds[i] /\ ds[i]["offer_type"] = t
                        /\ f \in DOMAIN ds[i]}

\* C19: an update of an offer deletes no tier and moves none to another
\* offer or type; it changes a field of a tier only if the tier belongs to
\* the offer and a patch of the tier's type supplies the field; it creates a
\* tier only for a patched type the offer has none of, once, with the
\* defaults in the fields no patch supplies; answered 200, every patched
\* type has one tier, which holds the supplied values.
C19_UpdateUpsertsTiers ==
    [][response' # response /\ response'.op \in OfferUpdates /\ response'.pk \in DOMAIN Offer =>
         LET pk == response'.pk
             ds == IF "details" \in DOMAIN response'.data THEN response'.data["details"]
                   ELSE <<>>
             Before(t) == OfferDetail_filter(OfferDetail, pk, t)
             After(t) == {k \in DOMAIN OfferDetail' :
                             OfferDetail'[k].offer = pk /\ OfferDetail'[k].offer_type = t}
             new == DOMAIN OfferDetail' \ DOMAIN OfferDetail
         IN
         /\ \A k \in DOMAIN OfferDetail :
               /\ k \in DOMAIN OfferDetail'
               /\ OfferDetail'[k].offer = OfferDetail[k].offer
               /\ OfferDetail'[k].offer_type = OfferDetail[k].offer_type
               /\ \A f \in DetailFields :
                     (OfferDetail[k].offer # pk
                        \/ Supplying(ds, OfferDetail[k].offer_type, f) = {}) =>
                     OfferDetail'[k][f] = OfferDetail[k][f]
         /\ \A k \in new :
               /\ OfferDetail'[k].offer = pk
               /\ Before(OfferDetail'[k].offer_type) = {}
               /\ After(OfferDetail'[k].offer_type) = {k}
               /\ \E i \in 1..Len(ds) : ds[i]["offer_type"] = OfferDetail'[k].offer_type
               /\ \A f \in DetailFields :
                     Supplying(ds, OfferDetail'[k].offer_type, f) = {} =>
                     OfferDetail'[k][f] = TierDefaults[f]
         /\ (response'.status \notin {HTTP_200_OK, HTTP_500_INTERNAL_SERVER_ERROR} =>
               UNCHANGED OfferDetail)
         /\ (response'.status = HTTP_200_OK =>
               \A i \in 1..Len(ds) :
                  LET t == ds[i]["offer_type"] IN
                  /\ Cardinality(After(t)) = 1
                  /\ \A k \in After(t), f \in DetailFields :
                        Supplying(ds, t, f) # {} =>
                        LET last == CHOOSE j \in Supplying(ds, t, f) :
                                       \A h \in Supplying(ds, t, f) : h <= j
                        IN OfferDetail'[k][f] = ds[last][f])]_vars

\* The creator has patched the price of the basic tier of an offer that had
\* no basic tier: the tier exists with price 5 and the default title, next
\* to an untouched tier of another offer.
C19_Witness ==
    /\ response.op = "offers_partial_update"
    /\ response.status = HTTP_200_OK
    /\ response.data = [details |-> <<[offer_type |-> "basic", price |-> 5]>>]
    /\ \E k \in DetailsOf(response.pk) :
          /\ OfferDetail[k].offer_type = "basic"
          /\ OfferDetail[k].price = 5
          /\ OfferDetail[k].title = ""
          /\ OfferDetail[k].delivery_time_in_days = 1
    /\ \E k \in DOMAIN OfferDetail : OfferDetail[k].offer # response.pk

\* C20: whenever every request has completed, every offer has exactly three
\* tiers, one of each type.  (It holds under SpecOfferSequence, where the
\* requests run one after the other.)
C20_ThreeTiersAfterCompletedOperations ==
    NoRequestInFlight =>
        \A o \in DOMAIN Offer :
            /\ Cardinality(DetailsOf(o)) = 3
            /\ \A t \in OFFER_TYPE_CHOICES :
                  Cardinality(OfferDetail_filter(OfferDetail, o, t)) = 1

(***************************************************************************)
(* Properties of reading orders and of the order counters.                 *)
(***************************************************************************)
\* The orders sold by account b that have the given status.
OrdersSoldBy(b, status) ==
    {o \in DOMAIN Order :
        /\ Offer[OfferDetail[Order[o].offer_detail].offer].creator = b
        /\ Order[o].status = status}

\* C21: for an existing account B, order-count answers the number of
\* in-progress orders of tiers of B's offers and completed-order-count the
\* number of completed ones; for an id of no account both answer 404; and
\* when the creator of the offer moves an order of the same tier from
\* in_progress to completed, the first number falls by one and the second
\* rises by one.
C21_OrderCounts ==
    [][/\ (response' # response /\ response'.op = "order_count" =>
             IF response'.pk \in DOMAIN auth_user
             THEN /\ response'.status = HTTP_200_OK
                  /\ response'.data.order_count
                        = Cardinality(OrdersSoldBy(response'.pk, "in_progress"))
             ELSE response'.status = HTTP_404_NOT_FOUND)
       /\ (response' # response /\ response'.op = "completed_order_count" =>
             IF response'.pk \in DOMAIN auth_user
             THEN /\ response'.status = HTTP_200_OK
                  /\ response'.data.completed_order_count
                        = Cardinality(OrdersSoldBy(response'.pk, "completed"))
             ELSE response'.status = HTTP_404_NOT_FOUND)
       /\ \A o \in DOMAIN Order \cap DOMAIN Order' :
             (/\ Order[o].status = "in_progress" /\ Order'[o].status = "completed"
              /\ Order'[o].offer_detail = Order[o].offer_detail) =>
             LET b == OfferCreatorOf(o) IN
             /\ Cardinality(Order_objects_filter(b, "in_progress")')
                   = Cardinality(Order_objects_filter(b, "in_progress")) - 1
             /\ Cardinality(Order_objects_filter(b, "completed")')
                   = Cardinality(Order_objects_filter(b, "completed")) + 1]_vars

\* The completed-order count of a business account with one completed order
\* and no order in progress has been read as 1.
C21_Witness ==
    /\ response.op = "completed_order_count"
    /\ response.status = HTTP_200_OK
    /\ response.data = [completed_order_count |-> 1]
    /\ \E o \in DOMAIN Order : OfferCreatorOf(o) = response.pk /\ Order[o].status = "completed"
    /\ \A o \in DOMAIN Order : Order[o].status # "in_progress"

\* The orders in which the account is the buyer or the seller.
OrdersOf(user) ==
    {o \in DOMAIN Order :
        \/ Order[o].buyer = user
        \/ Offer[OfferDetail[Order[o].offer_detail].offer].creator = user}

\* C23: GET /api/orders/ answers exactly the orders in which the acting
\* user is the buyer or the creator of the ordered tier's offer, and GET
\* /api/orders/{id}/ answers an order if it is one of these and 404 if not.
C23_ListOrdersOwnOnly ==
    [][/\ (response' # response /\ response'.op = "orders_list" =>
             response'.data = OrdersOf(response'.user))
       /\ (response' # response /\ response'.op = "orders_retrieve" =>
             IF response'.pk \in OrdersOf(response'.user)
             THEN response'.status = HTTP_200_OK /\ response'.data = Order[response'.pk]
             ELSE response'.status = HTTP_404_NOT_FOUND)]_vars

\* An account that is neither buyer nor seller of the one existing order has
\* asked for it by id and was answered 404.
C23_Witness ==
    /\ response.op = "orders_retrieve"
    /\ response.status = HTTP_404_NOT_FOUND
    /\ response.pk \in DOMAIN Order
    /\ Order[response.pk].buyer # response.user
    /\ OfferCreatorOf(response.pk) # response.user

\* C24: an order, once persisted, exists in every later state.
C24_OrdersNeverDeleted ==
    [][\A o \in DOMAIN Order : o \in DOMAIN Order']_vars

C29_OrderUpdateOnlyStatus ==
    [][response' # response /\ response'.op \in OrderUpdates /\ response'.pk \in DOMAIN Order
          /\ OfferCreatorOf(response'.pk) = response'.user =>
            /\ response'.pk \in DOMAIN Order'
            /\ Order'[response'.pk].buyer = Order[response'.pk].buyer
            /\ Order'[response'.pk].offer_detail = Order[response'.pk].offer_detail]_vars

(***************************************************************************)
(* Properties of the platform statistics.                                  *)
(***************************************************************************)
RECURSIVE SumOfRatings(_)
SumOfRatings(S) ==
    IF S = {} THEN 0
    ELSE LET r == CHOOSE x \in S : TRUE IN Review[r].rating + SumOfRatings(S \ {r})

\* t tenths is a one-decimal number nearest to sum / count.
NearestTenth(t, sum, count) ==
    /\ 2 * (t * count - 10 * sum) <= count
    /\ 2 * (10 * sum - t * count) <= count

\* C22: GET /api/base-info/ answers average_rating 0.0 when no review
\* exists and otherwise the mean of all ratings rounded to the nearest
\* number with one decimal; review_count, business_profile_count and
\* offer_count are the numbers of reviews, of business profiles and of
\* offers at the time of the request.
C22_PlatformStats ==
    [][response' # response /\ response'.op = "base_info" =>
         /\ response'.status = HTTP_200_OK
         /\ response'.data.review_count = Cardinality(DOMAIN Review)
         /\ response'.data.business_profile_count
               = Cardinality({p \in DOMAIN UserProfile : UserProfile[p].type = "business"})
         /\ response'.data.offer_count = Cardinality(DOMAIN Offer)
         /\ IF DOMAIN Review = {}
            THEN response'.data.average_rating = 0
            ELSE NearestTenth(response'.data.average_rating,
                              SumOfRatings(DOMAIN Review), Cardinality(DOMAIN Review))]_vars

\* Three reviews with ratings 4, 5 and 5 exist and the statistics report
\* the mean 4.7 and one offer.
C22_Witness ==
    /\ response.op = "base_info"
    /\ response.data.review_count = 3
    /\ response.data.average_rating = 47
    /\ response.data.offer_count = 1
    /\ SumOfRatings(DOMAIN Review) = 14

(***************************************************************************)
(* Properties of deleting offers.                                          *)
(***************************************************************************)
\* C26: in every state every tier references an existing offer; and a
\* DELETE of an offer by its creator is answered 204, removes the offer and
\* every tier of it, and leaves every tier of every other offer as it was.
C26_DeleteOfferCascades ==
    /\ [](\A k \in DOMAIN OfferDetail : OfferDetail[k].offer \in DOMAIN Offer)
    /\ [][response' # response /\ response'.op = "offers_destroy"
            /\ response'.pk \in DOMAIN Offer
            /\ Offer[response'.pk].creator = response'.user =>
              /\ response'.status = HTTP_204_NO_CONTENT
              /\ response'.pk \notin DOMAIN Offer'
              /\ \A k \in DOMAIN OfferDetail' : OfferDetail'[k].offer # response'.pk
              /\ \A k \in DOMAIN OfferDetail :
                    OfferDetail[k].offer # response'.pk =>
                       k \in DOMAIN OfferDetail' /\ OfferDetail'[k] = OfferDetail[k]]_vars

\* The creator has deleted an offer; its tiers are gone and the tiers of
\* another offer are still stored.
C26_Witness ==
    /\ response.op = "offers_destroy"
    /\ response.status = HTTP_204_NO_CONTENT
    /\ response.pk \notin DOMAIN Offer
    /\ DOMAIN OfferDetail # {}
    /\ \A k \in DOMAIN OfferDetail : OfferDetail[k].offer # response.pk

(***************************************************************************)
(* Properties of api.permissions.IsOwnerOrReadOnly.                        *)
(***************************************************************************)
OwnerAttrs == <<"user", "creator", "buyer", "reviewer">>

\* The positions in OwnerAttrs of the owner attributes the object has.
OwnerAttrsOf(obj) == {i \in 1..Len(OwnerAttrs) : OwnerAttrs[i] \in DOMAIN obj}

\* C27: IsOwnerOrReadOnly grants every GET, HEAD and OPTIONS request; it
\* grants a request with another method exactly when the object has one of
\* the attributes user, creator, buyer, reviewer and the first of them it
\* has, in this order, is the requesting user; it denies such a request on
\* an object with none of the four.
C27_IsOwnerOrReadOnly ==
    response.op = "has_object_permission" =>
        LET method == response.data.method
            obj == response.data.obj
            has == OwnerAttrsOf(obj)
        IN  response.data.granted <=>
               \/ method \in {"GET", "HEAD", "OPTIONS"}
               \/ /\ has # {}
                  /\ \E i \in has : /\ \A j \in has : i <= j
                                    /\ obj[OwnerAttrs[i]] = response.user

\* A PATCH by the creator of an object whose user is another account has
\* been denied.
C27_Witness ==
    /\ response.op = "has_object_permission"
    /\ response.data.method = "PATCH"
    /\ {"user", "creator"} \subseteq DOMAIN response.data.obj
    /\ response.data.obj["creator"] = response.user
    /\ response.data.obj["user"] # response.user
    /\ ~response.data.granted

(***************************************************************************)
(* Properties of the profile routes: writes across accounts.               *)
(***************************************************************************)
\* C28: a request on /api/profile/{user_id}/ or /api/profiles/ changes or
\* deletes a profile only of the account that sends it, and changes the
\* fields of no other account.
C28_NoCrossAccountProfileWrite ==
    [][/\ \A p \in DOMAIN UserProfile :
             (p \notin DOMAIN UserProfile' \/ UserProfile'[p] # UserProfile[p]) =>
                response'.user = UserProfile[p].user
       /\ \A u \in DOMAIN auth_user :
             auth_user'[u] # auth_user[u] => response'.user = u]_vars

(***************************************************************************)
(* Properties of the reviewed account.                                     *)
(***************************************************************************)
\* C30: the business_user of every stored review is an account with a
\* business profile, and is not the reviewer.
C30_ReviewedAccountIsBusiness ==
    \A r \in DOMAIN Review :
        /\ HasRole(Review[r].business_user, "business")
        /\ Review[r].business_user # Review[r].reviewer

====
